---- MODULE Spec2Model ----
(***************************************************************************)
(* Access-management sync: the reconciliation engine (app/logic.py), the   *)
(* access ledger (app/storage.py) and the sync orchestrator (app/sync.py). *)
(*                                                                         *)
(* Timestamps are whole days counted from an epoch, starting at 1.  The    *)
(* Python value None of an Optional[datetime] is the number 0, so that     *)
(* "if x" and "x is None" of the code read x # None and x = None.          *)
(***************************************************************************)
EXTENDS Integers, Sequences, FiniteSets, TLC

(***************************************************************************)
(* Bounds of the model.                                                    *)
(***************************************************************************)
\* transactions the purchase source ever holds
MaxTx == 2
\* reconciliation passes that are started
MaxPasses == 3
\* latest timestamp of the inputs of the decision engine taken alone
MaxTime == 4
\* register_processed calls made on the ledger taken alone
MaxRegs == 4
\* reads and writes of ledger files that fail
MaxFaults == 1

None == 0

VARIABLES
    source,            \* purchase source: the raw transaction records, oldest first
    disk,              \* persisted ledger files: script id -> MasterData
    pc,                \* "idle" | "running": position of run_sync
    pass_no,           \* passes started so far; also the wall clock of _utcnow()
    dry_run,           \* settings.scheduler.dry_run of the running pass
    master_cache,      \* run_sync: script id -> MasterData in memory
    since_timestamp,   \* run_sync: the fetch watermark (None when absent)
    raw_transactions,  \* run_sync: what fetch_transactions returned
    normalized,        \* run_sync: normalize_transactions(raw_transactions)
    index,             \* run_sync: position of the loop in normalized (1-based)
    latest_seen,       \* run_sync: script id -> max created_at seen (None when absent)
    summary,           \* run_sync: the counters of the run summary
    tv_grants,         \* access platform: transaction id -> grant_access calls received
    last,              \* what the loop body did for the transaction it handled last
    emails,            \* mail server: transaction id -> correction notifications sent
    handled,           \* ids the running pass granted or moved to manual review
    io_faults,         \* file system: reads and writes of ledger files that failed
    d_txn,             \* engine alone: the transaction given to derive_action
    d_existing,        \* engine alone: the existing record given to derive_action
    d_action,          \* engine alone: the Action returned (NoAction before the call)
    d_first,           \* engine alone: the Action of the first call, once committed
    r_master,          \* ledger alone: the MasterData register_processed is called on
    r_calls,           \* ledger alone: the ids passed to register_processed, in order
    r_log,             \* ledger alone: the ids that were absent when registered, in order
    r_file,            \* ledger alone: what the ledger's file holds
    r_prev,            \* ledger alone: the document the file held before the save
    r_pos,             \* ledger alone: position of save_master ("idle" between calls)
    r_saved,           \* ledger alone: the MasterData of the last save_master that returned
    r_loaded,          \* ledger alone: what the last load_master returned
    o_txns,            \* engine, two orders: the transactions of one recipient
    o_fwd,             \* engine, two orders: the ledger after delivery in order
    o_rev,             \* engine, two orders: the ledger after delivery in reverse
    o_n,               \* engine, two orders: transactions delivered so far
    o_ver,             \* engine, in order: the ledger when the platform verifies names
    t_pass,            \* triggers: trigger -> position of the pass it started
    t_tick,            \* triggers: what the latest firing of the interval job did
    t_settings,        \* triggers: scheduler.dry_run of the Settings get_settings caches
    t_asked,           \* triggers: request -> the dry_run parameter it was made with
    t_dry,             \* triggers: trigger -> dry_run as read by the pass it started
    n_filter,          \* normalizer alone: settings.wordpress.status_filter
    _max_retries,      \* grant call alone: settings.tradingview.max_retries
    _backoff,          \* grant call alone: settings.tradingview.retry_backoff_seconds
    attempt,           \* grant call alone: the loop counter of _post_with_retry
    posts,             \* grant call alone: what each POST of the call met, in order
    slept,             \* grant call alone: the delays slept between attempts, in order
    post_pc            \* grant call alone: position or outcome of _post_with_retry

vars == <<source, disk, pc, pass_no, dry_run, master_cache, since_timestamp,
          raw_transactions, normalized, index, latest_seen, summary, tv_grants,
          last, emails, handled, io_faults, d_txn, d_existing, d_action, d_first,
          r_master, r_calls, r_log, r_file, r_prev, r_pos, r_saved, r_loaded,
          o_txns, o_fwd, o_rev, o_n, o_ver, t_pass, t_tick, t_settings, t_asked,
          t_dry, n_filter, _max_retries, _backoff, attempt, posts, slept, post_pc>>

syncVars == <<source, disk, pc, pass_no, dry_run, master_cache, since_timestamp,
              raw_transactions, normalized, index, latest_seen, summary,
              tv_grants, last, emails, handled, io_faults>>

engineVars == <<d_txn, d_existing, d_action, d_first>>

ledgerVars == <<r_master, r_calls, r_log, r_file, r_prev, r_pos, r_saved, r_loaded>>

orderVars == <<o_txns, o_fwd, o_rev, o_n, o_ver>>

triggerVars == <<t_pass, t_tick, t_settings, t_asked, t_dry>>

normalizeVars == <<n_filter>>

retryVars == <<_max_retries, _backoff, attempt, posts, slept, post_pc>>

\* what the actions of one part of the model leave alone
otherThanSync == <<engineVars, ledgerVars, orderVars, triggerVars, normalizeVars, retryVars>>

otherThanEngine == <<syncVars, ledgerVars, orderVars, triggerVars, normalizeVars, retryVars>>

otherThanLedger == <<syncVars, engineVars, orderVars, triggerVars, normalizeVars, retryVars>>

otherThanOrder == <<syncVars, engineVars, ledgerVars, triggerVars, normalizeVars, retryVars>>

otherThanTrigger == <<syncVars, engineVars, ledgerVars, orderVars, normalizeVars, retryVars>>

otherThanRetry == <<syncVars, engineVars, ledgerVars, orderVars, triggerVars, normalizeVars>>

(***************************************************************************)
(* Configuration (app/config.py): the catalog and the status allow-list.   *)
(***************************************************************************)
Products ==
    [P1 |-> [script_id |-> "A", duration_days |-> 2, stacking_allowed |-> TRUE],
     P2 |-> [script_id |-> "A", duration_days |-> 1, stacking_allowed |-> FALSE],
     P3 |-> [script_id |-> "B", duration_days |-> 1, stacking_allowed |-> TRUE]]

ProductIds == DOMAIN Products

status_filter == {"complete", "confirmed"}

\* settings.email is configured
EmailConfigured == TRUE

\* the purchasers: user_id -> user_login
Logins == [i \in {1, 2} |-> IF i = 1 THEN "u1" ELSE "u2"]

UserIds == DOMAIN Logins

\* the name the access platform knows a purchase-time username by
Canonical(username) ==
    CASE username = "u1" -> "U1"
      [] username = "u2" -> "U2"
      [] OTHER -> username

(***************************************************************************)
(* app/logic.py                                                            *)
(***************************************************************************)
NoRecord == [none |-> TRUE]

NoAction == [type |-> "none"]

compute_expiry(created_at, duration_days, source_expiry) ==
    IF source_expiry # None
    THEN source_expiry
    ELSE created_at + duration_days

NormalizedTransaction(raw) ==
    LET product == Products[raw.product_id]
    IN [transaction_id   |-> raw.transaction_id,
        product_id       |-> raw.product_id,
        script_id        |-> product.script_id,
        username         |-> raw.user_login,
        wp_username      |-> raw.user_login,
        wp_user_id       |-> raw.user_id,
        created_at       |-> raw.created_at,
        computed_expiry  |-> compute_expiry(raw.created_at, product.duration_days,
                                            raw.expires_at),
        duration_days    |-> product.duration_days,
        stacking_allowed |-> product.stacking_allowed]

\* str.lower() on the status values that occur
Lower(s) ==
    CASE s = "Complete" -> "complete"
      [] s = "Pending" -> "pending"
      [] OTHER -> s

\* str.strip() on the status values that occur
Strip(s) ==
    CASE s = " complete " -> "complete"
      [] OTHER -> s

\* raw.get(key), None being the empty string
RawGet(raw, key) == IF key \in DOMAIN raw THEN raw[key] ELSE ""

\* (transaction.status or transaction.txn_status or "").strip()
status_value(raw) ==
    Strip(IF RawGet(raw, "status") # ""
          THEN RawGet(raw, "status")
          ELSE RawGet(raw, "txn_status"))

\* {status.lower() for status in settings.wordpress.status_filter}
LowerAll(filter) == {Lower(s) : s \in filter}

allowed_statuses == LowerAll(status_filter)

\* the status check without its test for an empty allow-list
status_rejected_on_empty(raw, allowed) ==
    Lower(status_value(raw)) \notin allowed

\* "if allowed_statuses and status_value.lower() not in allowed_statuses"
status_rejected(raw, allowed) ==
    allowed # {} /\ Lower(status_value(raw)) \notin allowed

\* a created_at string _parse_datetime raises ValueError on
Unparseable == 0

\* the record passes every check after the status check: the product is in
\* the catalog, created_at parses, a username is given
Resolvable(raw) ==
    /\ raw.product_id \in ProductIds
    /\ raw.created_at # Unparseable
    /\ raw.user_login # ""

RECURSIVE normalize_newest_first(_, _)
\* normalize that puts each record in front of the ones before it
normalize_newest_first(raws, filter) ==
    IF raws = <<>>
    THEN <<>>
    ELSE LET raw == Head(raws)
             rest == normalize_newest_first(Tail(raws), filter)
         IN IF status_rejected(raw, LowerAll(filter))
            THEN rest
            ELSE IF ~Resolvable(raw)
            THEN rest
            ELSE rest \o <<NormalizedTransaction(raw)>>

RECURSIVE normalize(_, _)
\* normalize_transactions under a given status allow-list
normalize(raws, filter) ==
    IF raws = <<>>
    THEN <<>>
    ELSE LET raw == Head(raws)
             rest == normalize(Tail(raws), filter)
         IN IF status_rejected(raw, LowerAll(filter))
            THEN rest
            ELSE IF ~Resolvable(raw)
            THEN rest
            ELSE <<NormalizedTransaction(raw)>> \o rest

normalize_transactions(raws) == normalize(raws, status_filter)

(***************************************************************************)
(* derive_action with one slip each, to show what the properties of the    *)
(* engine rest on.                                                         *)
(***************************************************************************)
\* the duplicate check left out
derive_action_no_duplicate_check(transaction, existing_record) ==
    IF existing_record = NoRecord
    THEN [type |-> "grant_new", expires_at |-> transaction.computed_expiry,
          reason |-> "None"]
    ELSE IF transaction.stacking_allowed
    THEN IF existing_record.expiry > transaction.created_at
         THEN [type |-> "stack_existing",
               expires_at |-> existing_record.expiry + transaction.duration_days,
               reason |-> "None"]
         ELSE [type |-> "stack_existing",
               expires_at |-> transaction.computed_expiry, reason |-> "None"]
    ELSE [type |-> "manual_review", expires_at |-> existing_record.expiry,
          reason |-> "stacking_disabled_existing_access"]

\* the duplicate check made after the stacking branch
derive_action_stacking_first(transaction, existing_record) ==
    IF existing_record = NoRecord
    THEN [type |-> "grant_new", expires_at |-> transaction.computed_expiry,
          reason |-> "None"]
    ELSE IF transaction.stacking_allowed
    THEN IF existing_record.expiry # None
            /\ existing_record.expiry > transaction.created_at
         THEN [type |-> "stack_existing",
               expires_at |-> existing_record.expiry + transaction.duration_days,
               reason |-> "None"]
         ELSE [type |-> "stack_existing",
               expires_at |-> transaction.computed_expiry, reason |-> "None"]
    ELSE IF transaction.transaction_id = existing_record.last_transaction_id
    THEN [type |-> "skip", expires_at |-> existing_record.expiry,
          reason |-> "duplicate_transaction"]
    ELSE [type |-> "manual_review", expires_at |-> existing_record.expiry,
          reason |-> "stacking_disabled_existing_access"]

\* a new grant that runs from created_at and ignores the source's expiry
derive_action_new_from_created_at(transaction, existing_record) ==
    IF existing_record = NoRecord
    THEN [type |-> "grant_new",
          expires_at |-> transaction.created_at + transaction.duration_days,
          reason |-> "None"]
    ELSE IF transaction.transaction_id = existing_record.last_transaction_id
    THEN [type |-> "skip", expires_at |-> existing_record.expiry,
          reason |-> "duplicate_transaction"]
    ELSE IF transaction.stacking_allowed
    THEN IF existing_record.expiry > transaction.created_at
         THEN [type |-> "stack_existing",
               expires_at |-> existing_record.expiry + transaction.duration_days,
               reason |-> "None"]
         ELSE [type |-> "stack_existing",
               expires_at |-> transaction.computed_expiry, reason |-> "None"]
    ELSE [type |-> "manual_review", expires_at |-> existing_record.expiry,
          reason |-> "stacking_disabled_existing_access"]

\* stacking that resets the expiry instead of extending it
derive_action_reset(transaction, existing_record) ==
    IF existing_record = NoRecord
    THEN [type |-> "grant_new", expires_at |-> transaction.computed_expiry,
          reason |-> "None"]
    ELSE IF transaction.transaction_id = existing_record.last_transaction_id
    THEN [type |-> "skip", expires_at |-> existing_record.expiry,
          reason |-> "duplicate_transaction"]
    ELSE IF transaction.stacking_allowed
    THEN [type |-> "stack_existing",
          expires_at |-> transaction.computed_expiry, reason |-> "None"]
    ELSE [type |-> "manual_review", expires_at |-> existing_record.expiry,
          reason |-> "stacking_disabled_existing_access"]

\* the liveness test of the existing access made non-strict
derive_action_non_strict(transaction, existing_record) ==
    IF existing_record = NoRecord
    THEN [type |-> "grant_new", expires_at |-> transaction.computed_expiry,
          reason |-> "None"]
    ELSE IF transaction.transaction_id = existing_record.last_transaction_id
    THEN [type |-> "skip", expires_at |-> existing_record.expiry,
          reason |-> "duplicate_transaction"]
    ELSE IF transaction.stacking_allowed
    THEN IF existing_record.expiry >= transaction.created_at
         THEN [type |-> "stack_existing",
               expires_at |-> existing_record.expiry + transaction.duration_days,
               reason |-> "None"]
         ELSE [type |-> "stack_existing",
               expires_at |-> transaction.computed_expiry, reason |-> "None"]
    ELSE [type |-> "manual_review", expires_at |-> existing_record.expiry,
          reason |-> "stacking_disabled_existing_access"]

\* manual review that proposes the transaction's own expiry
derive_action_review_overwrites(transaction, existing_record) ==
    IF existing_record = NoRecord
    THEN [type |-> "grant_new", expires_at |-> transaction.computed_expiry,
          reason |-> "None"]
    ELSE IF transaction.transaction_id = existing_record.last_transaction_id
    THEN [type |-> "skip", expires_at |-> existing_record.expiry,
          reason |-> "duplicate_transaction"]
    ELSE IF transaction.stacking_allowed
    THEN IF existing_record.expiry > transaction.created_at
         THEN [type |-> "stack_existing",
               expires_at |-> existing_record.expiry + transaction.duration_days,
               reason |-> "None"]
         ELSE [type |-> "stack_existing",
               expires_at |-> transaction.computed_expiry, reason |-> "None"]
    ELSE [type |-> "manual_review", expires_at |-> transaction.computed_expiry,
          reason |-> "stacking_disabled_existing_access"]

derive_action(transaction, existing_record) ==
    IF existing_record = NoRecord
    THEN [type |-> "grant_new", expires_at |-> transaction.computed_expiry,
          reason |-> "None"]
    ELSE IF transaction.transaction_id = existing_record.last_transaction_id
    THEN [type |-> "skip", expires_at |-> existing_record.expiry,
          reason |-> "duplicate_transaction"]
    ELSE IF transaction.stacking_allowed
    THEN IF existing_record.expiry # None
            /\ existing_record.expiry > transaction.created_at
         THEN [type |-> "stack_existing",
               expires_at |-> existing_record.expiry + transaction.duration_days,
               reason |-> "None"]
         ELSE [type |-> "stack_existing",
               expires_at |-> transaction.computed_expiry, reason |-> "None"]
    ELSE [type |-> "manual_review", expires_at |-> existing_record.expiry,
          reason |-> "stacking_disabled_existing_access"]

(***************************************************************************)
(* app/storage.py                                                          *)
(***************************************************************************)
ProcessedCap == 500

MasterData(script_id) ==
    [script_id              |-> script_id,
     last_synced_at         |-> None,
     last_processed_at      |-> None,
     processed_transactions |-> <<>>,
     users                  |-> <<>>,
     retry_queue            |-> <<>>,
     manual_review          |-> <<>>]

\* x in list
InList(x, list) == \E i \in 1..Len(list) : list[i] = x

\* a slice that keeps the oldest entries
LastN_keeps_oldest(list, n) ==
    IF Len(list) <= n THEN list ELSE SubSeq(list, 1, n)

\* list[-n:]
LastN(list, n) ==
    IF Len(list) <= n THEN list ELSE SubSeq(list, Len(list) - n + 1, Len(list))

\* register_processed that registers nothing
register_processed_forgets(master, transaction_id) ==
    master

register_processed(master, transaction_id) ==
    IF ~InList(transaction_id, master.processed_transactions)
    THEN LET appended == Append(master.processed_transactions, transaction_id)
         IN [master EXCEPT !.processed_transactions =
                 IF Len(appended) > ProcessedCap
                 THEN LastN(appended, ProcessedCap)
                 ELSE appended]
    ELSE master

\* dict.get(key): the value, NoRecord when the key is absent
UsersGet(users, key) ==
    IF key \in DOMAIN users THEN users[key] ELSE NoRecord

\* a pop that leaves the key in place
UsersPop_keeps(users, key) ==
    users

\* dict.pop(key, None)
UsersPop(users, key) ==
    [k \in DOMAIN users \ {key} |-> users[k]]

record_user(master, username, record) ==
    [master EXCEPT !.users =
        [k \in DOMAIN master.users \cup {username} |->
            IF k = username THEN record ELSE master.users[k]]]

\* record_retry that keeps the newest entry only
record_retry_newest_only(master, entry) ==
    [master EXCEPT !.retry_queue = <<entry>>]

\* record_retry that drops the entry
record_retry_dropped(master, entry) ==
    master

record_retry(master, entry) ==
    [master EXCEPT !.retry_queue = Append(master.retry_queue, entry)]

\* record_manual_review that loses the entry
record_manual_review_lost(master, entry) ==
    master

record_manual_review(master, entry) ==
    [master EXCEPT !.manual_review = Append(master.manual_review, entry)]

\* JSON null
Null == [null |-> TRUE]

\* json_encoders: a datetime is written as its ISO-8601 text, None as null
isoformat(value) ==
    IF value = None THEN Null ELSE [iso |-> value]

\* pydantic reads the ISO-8601 text back into a datetime, null into None
fromisoformat(text) ==
    IF text = Null THEN None ELSE text.iso

\* AccessRecord as a JSON object
dump_record(record) ==
    [record EXCEPT
        !.expiry = isoformat(@),
        !.last_transaction_at = isoformat(@),
        !.history = [i \in DOMAIN @ |->
                        [@[i] EXCEPT !.expires_at = isoformat(@),
                                     !.processed_at = isoformat(@)]]]

\* AccessRecord read from a JSON object
validate_record(data) ==
    [data EXCEPT
        !.expiry = fromisoformat(@),
        !.last_transaction_at = fromisoformat(@),
        !.history = [i \in DOMAIN @ |->
                        [@[i] EXCEPT !.expires_at = fromisoformat(@),
                                     !.processed_at = fromisoformat(@)]]]

\* master.model_dump(mode="json")
model_dump(master) ==
    [master EXCEPT
        !.last_synced_at = isoformat(@),
        !.last_processed_at = isoformat(@),
        !.users = [k \in DOMAIN @ |-> dump_record(@[k])],
        !.manual_review = [i \in DOMAIN @ |->
                              [@[i] EXCEPT !.recorded_at = isoformat(@)]]]

\* a model_validate that does not read the stored users
model_validate_without_users(data) ==
    [data EXCEPT
        !.last_synced_at = fromisoformat(@),
        !.last_processed_at = fromisoformat(@),
        !.users = <<>>,
        !.manual_review = [i \in DOMAIN @ |->
                              [@[i] EXCEPT !.recorded_at = fromisoformat(@)]]]

\* MasterData.model_validate(data)
model_validate(data) ==
    [data EXCEPT
        !.last_synced_at = fromisoformat(@),
        !.last_processed_at = fromisoformat(@),
        !.users = [k \in DOMAIN @ |-> validate_record(@[k])],
        !.manual_review = [i \in DOMAIN @ |->
                              [@[i] EXCEPT !.recorded_at = fromisoformat(@)]]]

load_master(files, script_id) ==
    IF script_id \notin DOMAIN files
    THEN MasterData(script_id)
    ELSE model_validate(files[script_id])

save_master(files, master) ==
    [s \in DOMAIN files \cup {master.script_id} |->
        IF s = master.script_id THEN model_dump(master) ELSE files[s]]

\* a file that holds no complete JSON document: empty or cut short
Torn == [torn |-> TRUE]

\* path.open("w") creates the file or truncates it to nothing
open_w(files, script_id) ==
    [s \in DOMAIN files \cup {script_id} |->
        IF s = script_id THEN Torn ELSE files[s]]

\* json.load and model_validate accept what the file holds
Readable(files, script_id) ==
    script_id \notin DOMAIN files \/ files[script_id] # Torn

(***************************************************************************)
(* External collaborators.                                                 *)
(***************************************************************************)
\* the purchase source answers fetch_transactions(since)
fetch_transactions(since) ==
    IF since # None
    THEN SelectSeq(source, LAMBDA txn : txn.created_at > since)
    ELSE source

\* what validate_username(username) can answer: an ApiError, an invalid
\* identity, or a valid one with or without a verified name
ValidationResults(username) ==
    {[error |-> TRUE, validUser |-> FALSE, verifiedUserName |-> ""],
     [error |-> FALSE, validUser |-> FALSE, verifiedUserName |-> ""],
     [error |-> FALSE, validUser |-> TRUE, verifiedUserName |-> ""],
     [error |-> FALSE, validUser |-> TRUE, verifiedUserName |-> Canonical(username)]}

\* grant_access(payload) returns ("ok") or raises ApiError ("ApiError")
GrantResults == {"ok", "ApiError"}

\* _render_invalid_username_email returns the page ("ok") or raises ("error"):
\* the template is read from a file and the suggestions come from the platform
RenderResults == {"ok", "error"}

\* send_email delivers ("ok") or raises ("error")
SendResults == {"ok", "error"}

(***************************************************************************)
(* app/sync.py                                                             *)
(***************************************************************************)
ScriptIds == {Products[p].script_id : p \in ProductIds}

_utcnow == pass_no

NewSummary(fetched, considered, since) ==
    [transactions_fetched    |-> fetched,
     transactions_considered |-> considered,
     processed               |-> 0,
     stacked                 |-> 0,
     skipped                 |-> 0,
     manual_review           |-> 0,
     failed                  |-> 0,
     dry_run_skipped         |-> 0,
     since                   |-> since,
     dry_run_calls           |-> 0,
     validation_failed       |-> 0]

\* a payload that names the purchaser as the purchase does
_grant_payload_purchase_name(txn, expiry, username) ==
    [scriptId    |-> txn.script_id,
     username    |-> txn.username,
     expiry      |-> expiry,
     wp_username |-> txn.wp_username]

_grant_payload(txn, expiry, username) ==
    [scriptId    |-> txn.script_id,
     username    |-> username,
     expiry      |-> expiry,
     wp_username |-> txn.wp_username]

\* min(since_candidates) if since_candidates else None
compute_since(cache) ==
    LET since_candidates ==
            {cache[s].last_processed_at : s \in
                {x \in DOMAIN cache : cache[x].last_processed_at # None}}
    IN IF since_candidates # {}
       THEN CHOOSE m \in since_candidates : \A c \in since_candidates : m <= c
       ELSE None

\* latest_seen kept as one value for all ledgers
track_latest_seen_shared(seen, txn) ==
    [s \in DOMAIN seen |->
        IF seen[s] = None \/ txn.created_at > seen[s]
        THEN txn.created_at
        ELSE seen[s]]

\* the latest_seen bookkeeping at the head of the loop body
track_latest_seen(seen, txn) ==
    LET current_seen == seen[txn.script_id]
    IN IF current_seen = None \/ txn.created_at > current_seen
       THEN [seen EXCEPT ![txn.script_id] = txn.created_at]
       ELSE seen

\* the watermark update without its guard
advance_watermark_unguarded(master, candidate) ==
    [master EXCEPT !.last_processed_at = candidate]

\* the watermark update after the loop, for one ledger
advance_watermark(master, candidate) ==
    IF candidate # None
       /\ (master.last_processed_at = None \/ candidate > master.last_processed_at)
    THEN [master EXCEPT !.last_processed_at = candidate]
    ELSE master

\* execute_tv_action that extends an existing access by the update operation
execute_tv_action_by_type(action_type) ==
    IF action_type = "stack_existing" THEN "update_access" ELSE "grant_access"

\* execute_tv_action(action_type, payload, summary) outside dry-run: the
\* operation of the access platform it calls
execute_tv_action(action_type) == "grant_access"

Effects(master, outcome, action, validated, operation, username, emailed) ==
    [master       |-> master,
     outcome      |-> outcome,
     action       |-> action,
     validated    |-> validated,
     operation    |-> operation,
     grant_calls  |-> IF operation = "grant_access" THEN 1 ELSE 0,
     update_calls |-> IF operation = "update_access" THEN 1 ELSE 0,
     username     |-> username,
     emailed      |-> emailed]

\* an access record whose history starts again with each grant
BuildRecord_history_reset(txn, action, effective_username, existing, processed_at) ==
    [wp_user_id          |-> txn.wp_user_id,
     username            |-> effective_username,
     wp_username         |-> txn.wp_username,
     product_id          |-> txn.product_id,
     script_id           |-> txn.script_id,
     expiry              |-> action.expires_at,
     last_transaction_id |-> txn.transaction_id,
     last_transaction_at |-> txn.created_at,
     history             |-> <<[transaction_id |-> txn.transaction_id,
                                action         |-> action.type,
                                expires_at     |-> action.expires_at,
                                processed_at   |-> processed_at]>>]

\* the access record run_sync builds after a successful grant
BuildRecord(txn, action, effective_username, existing, processed_at) ==
    LET history == IF existing # NoRecord THEN existing.history ELSE <<>>
    IN [wp_user_id          |-> txn.wp_user_id,
        username            |-> effective_username,
        wp_username         |-> txn.wp_username,
        product_id          |-> txn.product_id,
        script_id           |-> txn.script_id,
        expiry              |-> action.expires_at,
        last_transaction_id |-> txn.transaction_id,
        last_transaction_at |-> txn.created_at,
        history             |-> Append(history,
                                   [transaction_id |-> txn.transaction_id,
                                    action         |-> action.type,
                                    expires_at     |-> action.expires_at,
                                    processed_at   |-> processed_at])]

\* the tail of the loop body: state update after a successful grant
CommitGrant(master, txn, action, effective_username, existing, processed_at) ==
    LET record == BuildRecord(txn, action, effective_username, existing, processed_at)
        popped == IF effective_username # txn.username
                  THEN [master EXCEPT !.users = UsersPop(master.users, txn.username)]
                  ELSE master
        stored == register_processed(
                      record_user(popped, effective_username, record),
                      txn.transaction_id)
    IN [stored EXCEPT !.last_synced_at = processed_at]

\* InvalidUsername that queues the transaction only once the notification
\* has been sent
InvalidUsername_queue_after_send(master, txn, action, render, send, now) ==
    LET known == \E i \in 1..Len(master.manual_review) :
                    master.manual_review[i].transaction_id = txn.transaction_id
        queued == IF ~known /\ send = "ok"
                  THEN record_manual_review(master,
                           [transaction_id |-> txn.transaction_id,
                            reason         |-> "invalid_username",
                            recorded_at    |-> now])
                  ELSE master
    IN IF ~known /\ EmailConfigured /\ render = "error"
       THEN Effects(master, "render_failed", action, TRUE, "none", "", FALSE)
       ELSE Effects(register_processed(queued, txn.transaction_id),
                    "invalid_username", action, TRUE, "none", "",
                    ~known /\ EmailConfigured /\ send = "ok")

\* the invalid-identity branch of the loop body: the notification, once per
\* transaction id in the manual-review queue, the queue entry, the processed
\* mark.  A failure to render the page is raised out of run_sync
\* ("render_failed"); a failure to send it is logged.
InvalidUsername(master, txn, action, render, send, now) ==
    LET known == \E i \in 1..Len(master.manual_review) :
                    master.manual_review[i].transaction_id = txn.transaction_id
        queued == IF ~known
                  THEN record_manual_review(master,
                           [transaction_id |-> txn.transaction_id,
                            reason         |-> "invalid_username",
                            recorded_at    |-> now])
                  ELSE master
    IN IF ~known /\ EmailConfigured /\ render = "error"
       THEN Effects(master, "render_failed", action, TRUE, "none", "", FALSE)
       ELSE Effects(register_processed(queued, txn.transaction_id),
                    "invalid_username", action, TRUE, "none", "",
                    ~known /\ EmailConfigured /\ send = "ok")

\* the loop body from identity verification on, for a grant_new or
\* stack_existing action
VerifyAndGrant(master, txn, existing0, action, validation, grant, render, send, dry, now) ==
    IF validation.error
    THEN Effects(master, "validation_error", action, TRUE, "none", "", FALSE)
    ELSE IF ~validation.validUser
    THEN InvalidUsername(master, txn, action, render, send, now)
    ELSE LET effective_username ==
                 IF validation.verifiedUserName # ""
                 THEN validation.verifiedUserName
                 ELSE txn.username
             existing ==
                 IF effective_username # txn.username
                    /\ UsersGet(master.users, effective_username) # NoRecord
                 THEN UsersGet(master.users, effective_username)
                 ELSE existing0
             payload == _grant_payload(txn, action.expires_at, effective_username)
         IN IF dry
            THEN Effects(master, "dry_run", action, TRUE, "none",
                         effective_username, FALSE)
            ELSE IF grant = "ApiError"
            THEN Effects(record_retry(master,
                             [transaction_id |-> txn.transaction_id,
                              payload        |-> payload,
                              error_message  |-> "TradingView request failed",
                              attempts       |-> 0]),
                         "grant_failed", action, TRUE,
                         execute_tv_action(action.type), payload.username, FALSE)
            ELSE Effects(CommitGrant(master, txn, action, effective_username,
                                     existing, now),
                         action.type, action, TRUE,
                         execute_tv_action(action.type), payload.username, FALSE)

\* one iteration of the loop of run_sync, after get_master and latest_seen
LoopBody(master, txn, validation, grant, render, send, dry, now) ==
    IF InList(txn.transaction_id, master.processed_transactions)
    THEN Effects(master, "already_processed", NoAction, FALSE, "none", "", FALSE)
    ELSE LET existing == UsersGet(master.users, txn.username)
             action == derive_action(txn, existing)
         IN IF action.type = "skip"
            THEN Effects(register_processed(master, txn.transaction_id),
                         "skip", action, FALSE, "none", "", FALSE)
            ELSE IF action.type = "manual_review"
            THEN Effects(register_processed(
                             record_manual_review(master,
                                 [transaction_id |-> txn.transaction_id,
                                  reason         |-> action.reason,
                                  recorded_at    |-> now]),
                             txn.transaction_id),
                         "manual_review", action, FALSE, "none", "", FALSE)
            ELSE IF action.expires_at = None
            THEN Effects(master, "no_expiry", action, FALSE, "none", "", FALSE)
            ELSE VerifyAndGrant(master, txn, existing, action, validation, grant,
                                render, send, dry, now)

\* CounterOf that counts a verification error as failed
CounterOf_validation_as_failed(outcome) ==
    CASE outcome = "already_processed" -> "skipped"
      [] outcome = "skip"              -> "skipped"
      [] outcome = "manual_review"     -> "manual_review"
      [] outcome = "no_expiry"         -> "failed"
      [] outcome = "validation_error"  -> "failed"
      [] outcome = "invalid_username"  -> "manual_review"
      [] outcome = "dry_run"           -> "dry_run_skipped"
      [] outcome = "grant_failed"      -> "failed"
      [] outcome = "grant_new"         -> "processed"
      [] outcome = "stack_existing"    -> "stacked"

\* the counter of the run summary each outcome of the loop body increments
CounterOf(outcome) ==
    CASE outcome = "already_processed" -> "skipped"
      [] outcome = "skip"              -> "skipped"
      [] outcome = "manual_review"     -> "manual_review"
      [] outcome = "no_expiry"         -> "failed"
      [] outcome = "validation_error"  -> "validation_failed"
      [] outcome = "invalid_username"  -> "manual_review"
      [] outcome = "dry_run"           -> "dry_run_skipped"
      [] outcome = "grant_failed"      -> "failed"
      [] outcome = "grant_new"         -> "processed"
      [] outcome = "stack_existing"    -> "stacked"

Count(counters, outcome) ==
    [counters EXCEPT ![CounterOf(outcome)] = @ + 1]

RECURSIVE SaveAll(_, _, _)
\* for master in master_cache.values(): save_master(settings, master)
SaveAll(files, cache, ids) ==
    IF ids = {}
    THEN files
    ELSE LET s == CHOOSE x \in ids : TRUE
         IN SaveAll(save_master(files, cache[s]), cache, ids \ {s})

NoEffects ==
    [transaction_id |-> 0, outcome |-> "none", action |-> NoAction,
     validated |-> FALSE, operation |-> "none", grant_calls |-> 0,
     update_calls |-> 0, username |-> "", emailed |-> FALSE, verified |-> ""]

(***************************************************************************)
(* The purchase source: purchases arrive with increasing created_at, and   *)
(* a pending transaction may complete later.  The source changes between   *)
(* passes only: a pass reads it once, in its fetch.                        *)
(***************************************************************************)
CreatedAt(i) == 2 * i

\* purchasers are interchangeable: the one numbered n first buys after n - 1 has
Purchasers == {u \in UserIds : \A v \in UserIds :
                  v < u => \E i \in 1..Len(source) : source[i].user_id = v}

Purchase ==
    /\ pc = "idle"
    /\ Len(source) < MaxTx
    /\ \E u \in Purchasers, p \in ProductIds, st \in {"complete", "pending"} :
          source' = Append(source,
                        [transaction_id |-> Len(source) + 1,
                         user_id        |-> u,
                         user_login     |-> Logins[u],
                         product_id     |-> p,
                         created_at     |-> CreatedAt(Len(source) + 1),
                         expires_at     |-> None,
                         status         |-> st])
    /\ UNCHANGED <<disk, pc, pass_no, dry_run, master_cache, since_timestamp,
                   raw_transactions, normalized, index, latest_seen, summary,
                   tv_grants, last, emails, handled, io_faults>>
    /\ UNCHANGED otherThanSync

Complete ==
    /\ pc = "idle"
    /\ \E i \in 1..Len(source) :
          /\ source[i].status = "pending"
          /\ source' = [source EXCEPT ![i].status = "complete"]
    /\ UNCHANGED <<disk, pc, pass_no, dry_run, master_cache, since_timestamp,
                   raw_transactions, normalized, index, latest_seen, summary,
                   tv_grants, last, emails, handled, io_faults>>
    /\ UNCHANGED otherThanSync

(***************************************************************************)
(* run_sync, entered from the command line (launch.py, _run_once) with the *)
(* dry-run choice of that invocation.                                      *)
(***************************************************************************)
\* load_or_bootstrap: the ledger the pass works on and the files it leaves;
\* the bootstrap from the access platform, which saved a ledger, is disabled
load_or_bootstrap_saving(files, script_id) ==
    [master |-> load_master(files, script_id),
     files  |-> save_master(files, load_master(files, script_id))]

load_or_bootstrap(files, script_id) ==
    [master |-> load_master(files, script_id), files |-> files]

RECURSIVE LoadAll(_, _)
\* the files after "for script_id in script_ids: await load_or_bootstrap(script_id)"
LoadAll(files, ids) ==
    IF ids = {}
    THEN files
    ELSE LET s == CHOOSE x \in ids : TRUE
         IN LoadAll(load_or_bootstrap(files, s).files, ids \ {s})

\* reading a ledger file: it is read and parsed, or open/json.load raises
LoadResults == {"ok", "error"}

\* no file, no read; a file without a whole document never parses
LoadAnswers(files, faults) ==
    IF \E s \in ScriptIds : ~Readable(files, s)
    THEN {"error"}
    ELSE IF DOMAIN files \cap ScriptIds = {} \/ faults >= MaxFaults
    THEN {"ok"}
    ELSE LoadResults

RunSyncStart ==
    /\ pc = "idle"
    /\ pass_no < MaxPasses
    /\ pass_no' = pass_no + 1
    /\ \E load \in LoadAnswers(disk, io_faults) :
          IF load = "error"
          THEN /\ last' = [NoEffects EXCEPT !.outcome = "load_failed"]
               /\ io_faults' = IF \A s \in ScriptIds : Readable(disk, s)
                                THEN io_faults + 1
                                ELSE io_faults
               /\ UNCHANGED <<disk, pc, dry_run, master_cache, since_timestamp,
                              raw_transactions, normalized, index, latest_seen,
                              summary, handled>>
          ELSE \E dry \in BOOLEAN :
                  LET cache == [s \in ScriptIds |-> load_or_bootstrap(disk, s).master]
                      since == compute_since(cache)
                      raw   == fetch_transactions(since)
                      norm  == normalize_transactions(raw)
                  IN /\ disk' = LoadAll(disk, ScriptIds)
                     /\ dry_run' = dry
                     /\ master_cache' = cache
                     /\ since_timestamp' = since
                     /\ raw_transactions' = raw
                     /\ normalized' = norm
                     /\ summary' = NewSummary(Len(raw), Len(norm), since)
                     /\ latest_seen' = [s \in ScriptIds |-> None]
                     /\ index' = 1
                     /\ pc' = "running"
                     /\ handled' = {}
                     /\ last' = NoEffects
                     /\ UNCHANGED io_faults
    /\ UNCHANGED <<source, tv_grants, emails>>
    /\ UNCHANGED otherThanSync

\* The answers of the collaborators to the calls the loop body makes for
\* one transaction; a call that is not made has the one answer "ok".
ReachesVerification(master, txn) ==
    /\ ~InList(txn.transaction_id, master.processed_transactions)
    /\ LET action == derive_action(txn, UsersGet(master.users, txn.username))
       IN /\ action.type \in {"grant_new", "stack_existing"}
          /\ action.expires_at # None

ValidationAnswers(master, txn) ==
    IF ReachesVerification(master, txn)
    THEN ValidationResults(txn.username)
    ELSE {[error |-> FALSE, validUser |-> TRUE, verifiedUserName |-> ""]}

GrantAnswers(validation, dry) ==
    IF ~validation.error /\ validation.validUser /\ ~dry
    THEN GrantResults
    ELSE {"ok"}

RenderAnswers(validation) ==
    IF ~validation.error /\ ~validation.validUser
    THEN RenderResults
    ELSE {"ok"}

SendAnswers(validation, render) ==
    IF ~validation.error /\ ~validation.validUser /\ render = "ok"
    THEN SendResults
    ELSE {"ok"}

\* the locals of run_sync are gone when it returns or raises
DropLocals ==
    /\ pc' = "idle"
    /\ master_cache' = <<>>
    /\ since_timestamp' = None
    /\ raw_transactions' = <<>>
    /\ normalized' = <<>>
    /\ index' = 1
    /\ latest_seen' = [s \in ScriptIds |-> None]
    /\ dry_run' = FALSE
    /\ summary' = NewSummary(0, 0, None)
    /\ handled' = {}

\* one iteration of the loop; an exception the body does not catch ends
\* run_sync there, before any ledger is saved
RunSyncStep ==
    /\ pc = "running"
    /\ index <= Len(normalized)
    /\ LET txn    == normalized[index]
           master == master_cache[txn.script_id]
       IN \E validation \in ValidationAnswers(master, txn) :
          \E grant \in GrantAnswers(validation, dry_run) :
          \E render \in RenderAnswers(validation) :
          \E send \in SendAnswers(validation, render) :
             LET eff == LoopBody(master, txn, validation, grant, render, send,
                                 dry_run, _utcnow)
             IN IF eff.outcome = "render_failed"
                THEN /\ DropLocals
                     /\ last' = [NoEffects EXCEPT
                                    !.transaction_id = txn.transaction_id,
                                    !.outcome = eff.outcome]
                     /\ UNCHANGED <<tv_grants, emails>>
                ELSE /\ master_cache' = [master_cache EXCEPT
                                            ![txn.script_id] = eff.master]
                     /\ latest_seen' = track_latest_seen(latest_seen, txn)
                     /\ summary' = Count(summary, eff.outcome)
                     /\ tv_grants' = [tv_grants EXCEPT ![txn.transaction_id] =
                                          @ + eff.grant_calls]
                     /\ emails' = [emails EXCEPT ![txn.transaction_id] =
                                       @ + IF eff.emailed THEN 1 ELSE 0]
                     /\ handled' = IF eff.outcome \in {"grant_new", "stack_existing",
                                                       "manual_review",
                                                       "invalid_username"}
                                   THEN handled \cup {txn.transaction_id}
                                   ELSE handled
                     /\ last' = [transaction_id |-> txn.transaction_id,
                                 outcome        |-> eff.outcome,
                                 action         |-> eff.action,
                                 validated      |-> eff.validated,
                                 operation      |-> eff.operation,
                                 grant_calls    |-> eff.grant_calls,
                                 update_calls   |-> eff.update_calls,
                                 username       |-> eff.username,
                                 emailed        |-> eff.emailed,
                                 verified       |->
                                     IF ~validation.error /\ validation.validUser
                                     THEN validation.verifiedUserName
                                     ELSE ""]
                     /\ index' = index + 1
                     /\ UNCHANGED <<pc, dry_run, since_timestamp, raw_transactions,
                                    normalized>>
    /\ UNCHANGED <<source, disk, pass_no, io_faults>>
    /\ UNCHANGED otherThanSync

\* a save that fails: open raises and the file is as it was, or the write
\* stops after the file was truncated
SaveFailures == {"unopened", "torn"}

SaveFails(files, script_id, how) ==
    IF how = "torn" THEN open_w(files, script_id) ELSE files

\* the watermarks are advanced and the ledgers saved one after the other, in
\* the order of the dict; a save that raises ends run_sync there
RunSyncFinish ==
    /\ pc = "running"
    /\ index > Len(normalized)
    /\ LET advanced == [s \in DOMAIN master_cache |->
                           advance_watermark(master_cache[s], latest_seen[s])]
       IN \/ /\ disk' = SaveAll(disk, advanced, DOMAIN advanced)
             /\ last' = NoEffects
             /\ UNCHANGED io_faults
          \/ /\ io_faults < MaxFaults
             /\ \E failing \in DOMAIN advanced :
                \E saved \in SUBSET (DOMAIN advanced \ {failing}) :
                \E how \in SaveFailures :
                   /\ disk' = SaveFails(SaveAll(disk, advanced, saved), failing, how)
                   /\ last' = [NoEffects EXCEPT !.outcome = "save_failed"]
             /\ io_faults' = io_faults + 1
    /\ DropLocals
    /\ UNCHANGED <<source, pass_no, tv_grants, emails>>
    /\ UNCHANGED otherThanSync

SyncIdle ==
    /\ pc = "idle"
    /\ pass_no = 0
    /\ dry_run = FALSE
    /\ master_cache = <<>>
    /\ since_timestamp = None
    /\ raw_transactions = <<>>
    /\ normalized = <<>>
    /\ index = 1
    /\ latest_seen = [s \in ScriptIds |-> None]
    /\ summary = NewSummary(0, 0, None)
    /\ last = NoEffects
    /\ handled = {}
    /\ io_faults = 0

EngineIdle ==
    /\ d_txn = NoRecord
    /\ d_existing = NoRecord
    /\ d_action = NoAction
    /\ d_first = NoAction

LedgerIdle ==
    /\ r_master = MasterData("A")
    /\ r_calls = <<>>
    /\ r_log = <<>>
    /\ r_file = <<>>
    /\ r_prev = <<>>
    /\ r_pos = "idle"
    /\ r_saved = NoRecord
    /\ r_loaded = NoRecord

OrderIdle ==
    /\ o_txns = <<>>
    /\ o_fwd = NoRecord
    /\ o_rev = NoRecord
    /\ o_n = 0
    /\ o_ver = NoRecord

NormalizeIdle == n_filter = status_filter

RetryIdle ==
    /\ _max_retries = 0
    /\ _backoff = <<>>
    /\ attempt = 0
    /\ posts = <<>>
    /\ slept = <<>>
    /\ post_pc = "idle"

Triggers == {"interval_job", "http_1", "http_2"}

TriggerIdle ==
    /\ t_pass = [t \in Triggers |-> "idle"]
    /\ t_tick = "none"
    /\ t_settings = FALSE
    /\ t_asked = [t \in Triggers \ {"interval_job"} |-> FALSE]
    /\ t_dry = [t \in Triggers |-> FALSE]

\* a fresh installation: no purchase yet, no ledger file
Init ==
    /\ source = <<>>
    /\ disk = <<>>
    /\ tv_grants = [i \in 1..MaxTx |-> 0]
    /\ emails = [i \in 1..MaxTx |-> 0]
    /\ SyncIdle
    /\ EngineIdle
    /\ LedgerIdle
    /\ OrderIdle
    /\ TriggerIdle
    /\ NormalizeIdle
    /\ RetryIdle

Next ==
    \/ Purchase
    \/ Complete
    \/ RunSyncStart
    \/ RunSyncStep
    \/ RunSyncFinish

Spec == Init /\ [][Next]_vars

(***************************************************************************)
(* The decision engine taken alone: derive_action applied to a transaction *)
(* and an existing record drawn from bounded sets, the record run_sync     *)
(* builds from the result committed, and derive_action applied again.      *)
(***************************************************************************)
RawInputs ==
    [transaction_id : {1, 2},
     user_id        : {1},
     user_login     : {Logins[1]},
     product_id     : ProductIds,
     created_at     : 1..MaxTime,
     expires_at     : 0..MaxTime,
     status         : {"complete"}]

TxnInputs == {NormalizedTransaction(raw) : raw \in RawInputs}

\* the records earlier grants can have left: one per last transaction and expiry
ExistingInputs ==
    {NoRecord} \cup
    {BuildRecord(txn, [type |-> "grant_new", expires_at |-> e], name, NoRecord, 1) :
        txn \in {t \in TxnInputs : t.created_at = 1 /\ t.computed_expiry = 1},
        e \in 1..MaxTime,
        name \in {Logins[1], Canonical(Logins[1])}}

EngineInit ==
    /\ source = <<>>
    /\ disk = <<>>
    /\ tv_grants = [i \in 1..MaxTx |-> 0]
    /\ emails = [i \in 1..MaxTx |-> 0]
    /\ SyncIdle
    /\ d_txn \in TxnInputs
    /\ d_existing \in ExistingInputs
    /\ d_action = NoAction
    /\ d_first = NoAction
    /\ LedgerIdle
    /\ OrderIdle
    /\ TriggerIdle
    /\ NormalizeIdle
    /\ RetryIdle

EngineDerive ==
    /\ d_action = NoAction
    /\ d_action' = derive_action(d_txn, d_existing)
    /\ UNCHANGED <<d_txn, d_existing, d_first>>
    /\ UNCHANGED otherThanEngine

EngineCommit ==
    /\ d_first = NoAction
    /\ d_action.type \in {"grant_new", "stack_existing"}
    /\ \E name \in {d_txn.username, Canonical(d_txn.username)} :
          d_existing' = BuildRecord(d_txn, d_action, name, d_existing, 1)
    /\ d_first' = d_action
    /\ d_action' = NoAction
    /\ UNCHANGED d_txn
    /\ UNCHANGED otherThanEngine

EngineNext ==
    \/ EngineDerive
    \/ EngineCommit

EngineSpec == EngineInit /\ [][EngineNext]_vars

(***************************************************************************)
(* A ledger that has been in use for long.  An earlier pass (wall clock 1) *)
(* was answered newest first: transaction 1 of purchaser 1 came first and  *)
(* was granted, then ProcessedCap - 1 older transactions of script A, made *)
(* at time 1 by purchasers whose identities the access platform reported   *)
(* invalid, and one such transaction of script B.  The source still holds  *)
(* the older transactions; their created_at is at or below every watermark *)
(* from here on, so no fetch returns them and source lists the later ones. *)
(***************************************************************************)
Older(i) == 0 - i

OlderReview(i) ==
    [transaction_id |-> Older(i), reason |-> "invalid_username", recorded_at |-> 1]

AgedSource ==
    <<[transaction_id |-> 1,
       user_id        |-> 1,
       user_login     |-> Logins[1],
       product_id     |-> "P1",
       created_at     |-> CreatedAt(1),
       expires_at     |-> None,
       status         |-> "complete"]>>

AgedLedgerA ==
    LET txn == NormalizedTransaction(AgedSource[1])
        first == CommitGrant(MasterData("A"), txn, derive_action(txn, NoRecord),
                             txn.username, NoRecord, 1)
    IN [first EXCEPT
          !.processed_transactions = @ \o [i \in 1..(ProcessedCap - 1) |-> Older(i)],
          !.manual_review = [i \in 1..(ProcessedCap - 1) |-> OlderReview(i)],
          !.last_processed_at = txn.created_at]

\* a ledger in use: one recipient granted, one purchase awaiting its retry,
\* one awaiting manual review, the watermark advanced
UsedLedgerA ==
    LET txn == NormalizedTransaction(AgedSource[1])
        action == derive_action(txn, NoRecord)
        first == CommitGrant(MasterData("A"), txn, action, txn.username, NoRecord, 1)
    IN [first EXCEPT
          !.retry_queue = <<[transaction_id |-> 2,
                             payload        |-> _grant_payload(txn, action.expires_at,
                                                               txn.username),
                             error_message  |-> "TradingView request failed",
                             attempts       |-> 0]>>,
          !.manual_review = <<OlderReview(1)>>,
          !.last_processed_at = txn.created_at]

AgedLedgerB ==
    [MasterData("B") EXCEPT
          !.processed_transactions = <<Older(ProcessedCap)>>,
          !.manual_review = <<OlderReview(ProcessedCap)>>,
          !.last_processed_at = 1]

InitAged ==
    /\ source = AgedSource
    /\ disk = save_master(save_master(<<>>, AgedLedgerA), AgedLedgerB)
    /\ tv_grants = [i \in 1..MaxTx |-> IF i = 1 THEN 1 ELSE 0]
    /\ emails = [i \in 1..MaxTx |-> 0]
    /\ SyncIdle
    /\ EngineIdle
    /\ LedgerIdle
    /\ OrderIdle
    /\ TriggerIdle
    /\ NormalizeIdle
    /\ RetryIdle

SpecAged == InitAged /\ [][Next]_vars

(***************************************************************************)
(* The ledger taken alone: register_processed called on a ledger whose     *)
(* processed list is empty, one short of its cap, or at its cap, with ids  *)
(* that are new, present, or were evicted.                                 *)
(***************************************************************************)
RegIds == {1, 2, 3, Older(1), Older(2)}

LedgerInit ==
    /\ source = <<>>
    /\ disk = <<>>
    /\ tv_grants = [i \in 1..MaxTx |-> 0]
    /\ emails = [i \in 1..MaxTx |-> 0]
    /\ SyncIdle
    /\ EngineIdle
    /\ \E n \in {0, ProcessedCap - 1, ProcessedCap} :
       \E ledger \in {MasterData("A"), UsedLedgerA} :
          /\ r_log = LastN(ledger.processed_transactions
                              \o [i \in 1..n |-> Older(i)], ProcessedCap)
          /\ r_master = [ledger EXCEPT !.processed_transactions = r_log]
    /\ r_calls = <<>>
    /\ r_file = <<>>
    /\ r_prev = <<>>
    /\ r_pos = "idle"
    /\ r_saved = NoRecord
    /\ r_loaded = NoRecord
    /\ OrderIdle
    /\ TriggerIdle
    /\ NormalizeIdle
    /\ RetryIdle

Register ==
    /\ r_pos \in {"idle", "loaded"}
    /\ Len(r_calls) < MaxRegs
    /\ \E transaction_id \in RegIds :
          /\ r_master' = register_processed(r_master, transaction_id)
          /\ r_calls' = Append(r_calls, transaction_id)
          /\ r_log' = IF InList(transaction_id, r_master.processed_transactions)
                      THEN r_log
                      ELSE Append(r_log, transaction_id)
    /\ UNCHANGED <<r_file, r_prev, r_pos, r_saved, r_loaded>>
    /\ UNCHANGED otherThanLedger

\* save_master, first half: the file is opened for writing
SaveOpen ==
    /\ r_pos \in {"idle", "loaded"}
    /\ r_prev' = r_file
    /\ r_file' = open_w(r_file, r_master.script_id)
    /\ r_pos' = "open"
    /\ UNCHANGED <<r_master, r_calls, r_log, r_saved, r_loaded>>
    /\ UNCHANGED otherThanLedger

\* save_master, second half: json.dump has written the whole document
SaveDump ==
    /\ r_pos = "open"
    /\ r_file' = save_master(r_file, r_master)
    /\ r_pos' = "idle"
    /\ r_saved' = r_master
    /\ UNCHANGED <<r_master, r_calls, r_log, r_prev, r_loaded>>
    /\ UNCHANGED otherThanLedger

\* the process is killed, or the write fails, before the document is whole
SaveCrash ==
    /\ r_pos = "open"
    /\ r_pos' = "crashed"
    /\ UNCHANGED <<r_master, r_calls, r_log, r_file, r_prev, r_saved, r_loaded>>
    /\ UNCHANGED otherThanLedger

\* load_master called between two saves, on the file as it then is
Load ==
    /\ r_pos = "idle"
    /\ r_loaded' = load_master(r_file, r_master.script_id)
    /\ r_pos' = "loaded"
    /\ UNCHANGED <<r_master, r_calls, r_log, r_file, r_prev, r_saved>>
    /\ UNCHANGED otherThanLedger

LedgerNext ==
    \/ Register
    \/ SaveOpen
    \/ SaveDump
    \/ SaveCrash
    \/ Load

LedgerSpec == LedgerInit /\ [][LedgerNext]_vars

(***************************************************************************)
(* The normalizer taken alone: normalize_transactions applied to what the  *)
(* purchase source can answer, one or two raw records whose status is on   *)
(* the allow-list (in either case) or off it, whose product is in the      *)
(* catalog or not, and whose source expiry is absent, before or after      *)
(* created_at.                                                             *)
(***************************************************************************)
\* raw records in one answer of the purchase source
MaxRaw == 2

\* status and txn_status of a raw record: on the list in lower case, in
\* capitals, inside blanks, off the list, given by txn_status only, absent
StatusPairs ==
    {<<"complete", "">>, <<"Complete", "">>, <<" complete ", "">>,
     <<"pending", "">>, <<"", "complete">>, <<"", "">>}

NormalizeRaws ==
    {[transaction_id |-> id,
      user_id        |-> 1,
      user_login     |-> login,
      product_id     |-> p,
      created_at     |-> c,
      expires_at     |-> e,
      status         |-> st[1],
      txn_status     |-> st[2]] :
        id \in {1, 2}, login \in {Logins[1], ""}, p \in {"P1", "PX"},
        c \in {Unparseable, 1, 2}, e \in {None, 1}, st \in StatusPairs}

\* the allow-lists configured: none, and one with an entry in capitals
StatusFilters == {{}, {"Complete", "confirmed"}}

NormalizeInit ==
    /\ \E n \in 1..MaxRaw : source \in [1..n -> NormalizeRaws]
    /\ n_filter \in StatusFilters
    /\ disk = <<>>
    /\ tv_grants = [i \in 1..MaxTx |-> 0]
    /\ emails = [i \in 1..MaxTx |-> 0]
    /\ SyncIdle
    /\ EngineIdle
    /\ LedgerIdle
    /\ OrderIdle
    /\ TriggerIdle
    /\ RetryIdle

\* normalized = normalize_transactions(raw_transactions, settings)
Normalize ==
    /\ raw_transactions = <<>>
    /\ raw_transactions' = source
    /\ normalized' = normalize(source, n_filter)
    /\ UNCHANGED <<source, disk, pc, pass_no, dry_run, master_cache, since_timestamp,
                   index, latest_seen, summary, tv_grants, last, emails, handled,
                   io_faults>>
    /\ UNCHANGED otherThanSync

NormalizeNext == Normalize

NormalizeSpec == NormalizeInit /\ [][NormalizeNext]_vars

(***************************************************************************)
(* The grant call taken alone: one call of _post_with_retry, for every     *)
(* max_retries up to MaxRetries and a backoff list that is empty, has one  *)
(* delay, or has the three delays of the default, against a platform that  *)
(* answers each POST as it likes.                                          *)
(***************************************************************************)
MaxRetries == 3

\* what one POST can meet: a 2xx response with a JSON body, a 2xx response
\* whose body is not JSON, a 4xx/5xx response (HTTPStatusError), or no
\* response at all (another HTTPError)
PostResults == {"ok", "not_json", "HTTPStatusError", "HTTPError"}

\* settings.tradingview.retry_backoff_seconds: any list of integers
BackoffLists == {<<>>, <<5>>, <<5, 15, 60>>}

Min(a, b) == IF a <= b THEN a ELSE b

\* list[i] is defined: Python counts a negative index from the end
IndexInRange(list, i) ==
    IF i >= 0 THEN i < Len(list) ELSE 0 - i <= Len(list)

\* list[i] of Python, for an index in range
Subscript(list, i) ==
    IF i >= 0 THEN list[i + 1] ELSE list[Len(list) + i + 1]

RetryInit ==
    /\ source = <<>>
    /\ disk = <<>>
    /\ tv_grants = [i \in 1..MaxTx |-> 0]
    /\ emails = [i \in 1..MaxTx |-> 0]
    /\ SyncIdle
    /\ EngineIdle
    /\ LedgerIdle
    /\ OrderIdle
    /\ TriggerIdle
    /\ NormalizeIdle
    /\ _max_retries \in 0..MaxRetries
    /\ _backoff \in BackoffLists
    /\ attempt = 0
    /\ posts = <<>>
    /\ slept = <<>>
    /\ post_pc = "idle"

\* grant_access(payload) enters _post_with_retry: attempt = 0
PostEnter ==
    /\ post_pc = "idle"
    /\ post_pc' = "while"
    /\ attempt' = 0
    /\ UNCHANGED <<_max_retries, _backoff, posts, slept>>
    /\ UNCHANGED otherThanRetry

\* one turn of the while loop up to its sleep: the POST, the return of
\* response.json(), or the exception handlers and the break; the raise
\* that follows the loop
Post ==
    /\ post_pc = "while"
    /\ IF attempt <= _max_retries
       THEN \E response \in PostResults :
               /\ posts' = Append(posts, response)
               /\ post_pc' = CASE response = "ok" -> "returned"
                                [] response = "not_json" -> "JSONDecodeError"
                                [] OTHER -> IF attempt = _max_retries
                                            THEN "ApiError"
                                            ELSE "sleep"
       ELSE /\ post_pc' = "ApiError"
            /\ UNCHANGED posts
    /\ UNCHANGED <<_max_retries, _backoff, attempt, slept>>
    /\ UNCHANGED otherThanRetry

\* await asyncio.sleep(self._backoff[min(attempt, len(self._backoff) - 1)])
\* and attempt += 1
Sleep ==
    /\ post_pc = "sleep"
    /\ LET i == Min(attempt, Len(_backoff) - 1)
       IN IF IndexInRange(_backoff, i)
          THEN /\ slept' = Append(slept, Subscript(_backoff, i))
               /\ attempt' = attempt + 1
               /\ post_pc' = "while"
          ELSE /\ post_pc' = "IndexError"
               /\ UNCHANGED <<slept, attempt>>
    /\ UNCHANGED <<_max_retries, _backoff, posts>>
    /\ UNCHANGED otherThanRetry

RetryNext ==
    \/ PostEnter
    \/ Post
    \/ Sleep

RetrySpec == RetryInit /\ [][RetryNext]_vars

(***************************************************************************)
(* Delivery order: the transactions of one recipient for one ledger are    *)
(* handled by the loop body in one order and in the reverse order, each on *)
(* a ledger of its own that starts empty.  The access platform confirms    *)
(* the purchase-time username and accepts every grant.                     *)
(***************************************************************************)
\* transactions delivered in the two orders
MaxOrder == 2

Confirmed == [error |-> FALSE, validUser |-> TRUE, verifiedUserName |-> ""]

Deliver(master, txn, now) ==
    LoopBody(master, txn, Confirmed, "ok", "ok", "ok", FALSE, now).master

\* the answers of validate_username for a valid identity: the purchase-time
\* name confirmed, or the verified name returned
Verifications(username) ==
    {v \in ValidationResults(username) : ~v.error /\ v.validUser}

DeliverVerified(master, txn, validation, now) ==
    LoopBody(master, txn, validation, "ok", "ok", "ok", FALSE, now).master

OrderInit ==
    /\ source = <<>>
    /\ disk = <<>>
    /\ tv_grants = [i \in 1..MaxTx |-> 0]
    /\ emails = [i \in 1..MaxTx |-> 0]
    /\ SyncIdle
    /\ EngineIdle
    /\ LedgerIdle
    /\ TriggerIdle
    /\ NormalizeIdle
    /\ RetryIdle
    /\ o_txns \in {pair \in [1..MaxOrder -> TxnInputs] :
                      /\ \A i \in 1..MaxOrder : pair[i].transaction_id = i
                      /\ \A i \in 1..MaxOrder : pair[i].script_id = pair[1].script_id}
    /\ o_fwd = MasterData(o_txns[1].script_id)
    /\ o_rev = MasterData(o_txns[1].script_id)
    /\ o_n = 0
    /\ o_ver = MasterData(o_txns[1].script_id)

OrderDeliver ==
    /\ o_n < Len(o_txns)
    /\ o_fwd' = Deliver(o_fwd, o_txns[o_n + 1], o_n + 1)
    /\ o_rev' = Deliver(o_rev, o_txns[Len(o_txns) - o_n], o_n + 1)
    /\ \E validation \in Verifications(o_txns[o_n + 1].username) :
          o_ver' = DeliverVerified(o_ver, o_txns[o_n + 1], validation, o_n + 1)
    /\ o_n' = o_n + 1
    /\ UNCHANGED o_txns
    /\ UNCHANGED otherThanOrder

OrderNext == OrderDeliver

OrderSpec == OrderInit /\ [][OrderNext]_vars

(***************************************************************************)
(* The triggers of a pass: the interval job of the scheduler and requests  *)
(* to POST /sync, two of which can be open at once.  A pass taken as a     *)
(* whole goes through the stages of run_sync: the ledgers are loaded, the  *)
(* transactions fetched, reconciled one by one, and the ledgers saved.     *)
(***************************************************************************)
NextStage(stage) ==
    CASE stage = "loading" -> "fetching"
      [] stage = "fetching" -> "reconciling"
      [] stage = "reconciling" -> "saving"
      [] stage = "saving" -> "idle"

HttpRequests == Triggers \ {"interval_job"}

TriggerInit ==
    /\ source = <<>>
    /\ disk = <<>>
    /\ tv_grants = [i \in 1..MaxTx |-> 0]
    /\ emails = [i \in 1..MaxTx |-> 0]
    /\ SyncIdle
    /\ EngineIdle
    /\ LedgerIdle
    /\ OrderIdle
    /\ TriggerIdle
    /\ NormalizeIdle
    /\ RetryIdle

\* the interval elapses: add_job(run_sync, "interval", max_instances=1,
\* coalesce=True) starts the job unless an instance of it is still running
IntervalJobFires ==
    /\ IF t_pass["interval_job"] = "idle"
       THEN /\ t_pass' = [t_pass EXCEPT !["interval_job"] = "loading"]
            /\ t_tick' = "started"
       ELSE /\ t_tick' = "skipped"
            /\ UNCHANGED t_pass
    /\ UNCHANGED <<t_settings, t_asked, t_dry>>
    /\ UNCHANGED otherThanTrigger

\* settings.scheduler.dry_run after "if dry_run: settings.scheduler.dry_run =
\* True", settings being the object get_settings caches
settings_after_request(cached, dry_run_param) ==
    IF dry_run_param THEN TRUE ELSE cached

\* POST /sync arrives with its dry_run parameter: the handler sets the
\* cached Settings and awaits run_sync at once, which reads dry_run from them
trigger_sync ==
    /\ \E request \in HttpRequests : \E dry_run_param \in BOOLEAN :
          /\ t_pass[request] = "idle"
          /\ t_pass' = [t_pass EXCEPT ![request] = "loading"]
          /\ t_asked' = [t_asked EXCEPT ![request] = dry_run_param]
          /\ t_settings' = settings_after_request(t_settings, dry_run_param)
          /\ t_dry' = [t_dry EXCEPT ![request] = t_settings']
    /\ UNCHANGED t_tick
    /\ UNCHANGED otherThanTrigger

\* a pass in flight moves on; after saving it has returned
PassAdvances ==
    /\ \E t \in Triggers :
          /\ t_pass[t] # "idle"
          /\ t_pass' = [t_pass EXCEPT ![t] = NextStage(t_pass[t])]
    /\ UNCHANGED <<t_tick, t_settings, t_asked, t_dry>>
    /\ UNCHANGED otherThanTrigger

TriggerNext ==
    \/ IntervalJobFires
    \/ trigger_sync
    \/ PassAdvances

TriggerSpec == TriggerInit /\ [][TriggerNext]_vars

(***************************************************************************)
(* Properties of the decision engine (EngineSpec).                         *)
(***************************************************************************)
Decided == d_action # NoAction

NonDuplicate ==
    /\ d_existing # NoRecord
    /\ d_txn.transaction_id # d_existing.last_transaction_id

\* C2: replaying a transaction against the record run_sync built from its
\* own grant_new decision yields skip with reason duplicate_transaction.
C2_ReplayIsDuplicate ==
    (d_first.type = "grant_new" /\ Decided)
        => (d_action.type = "skip" /\ d_action.reason = "duplicate_transaction")

C2_Witness ==
    /\ d_first.type = "grant_new"
    /\ Decided
    /\ d_existing.last_transaction_id = d_txn.transaction_id

\* C3: with no existing record the decision is grant_new and expires at the
\* transaction's computed_expiry.
C3_NewGrant ==
    (Decided /\ d_existing = NoRecord)
        => (d_action.type = "grant_new"
            /\ d_action.expires_at = d_txn.computed_expiry)

C3_Witness ==
    /\ Decided
    /\ d_existing = NoRecord
    /\ d_txn.computed_expiry # d_txn.created_at + d_txn.duration_days

\* C4: stacking allowed, not a duplicate, existing expiry strictly after
\* created_at: stack_existing, expiring at existing.expiry + duration_days,
\* which is strictly later than existing.expiry.
C4_StackLive ==
    (Decided /\ NonDuplicate /\ d_txn.stacking_allowed
        /\ d_existing.expiry > d_txn.created_at)
        => (d_action.type = "stack_existing"
            /\ d_action.expires_at = d_existing.expiry + d_txn.duration_days
            /\ d_action.expires_at > d_existing.expiry)

C4_Witness ==
    /\ Decided
    /\ NonDuplicate
    /\ d_txn.stacking_allowed
    /\ d_existing.expiry > d_txn.created_at
    /\ d_txn.computed_expiry # d_existing.expiry + d_txn.duration_days

\* C5: stacking allowed, not a duplicate, existing expiry at or before
\* created_at: stack_existing, expiring at the transaction's computed_expiry.
C5_StackLapsed ==
    (Decided /\ NonDuplicate /\ d_txn.stacking_allowed
        /\ d_existing.expiry <= d_txn.created_at)
        => (d_action.type = "stack_existing"
            /\ d_action.expires_at = d_txn.computed_expiry)

C5_Witness ==
    /\ Decided
    /\ NonDuplicate
    /\ d_txn.stacking_allowed
    /\ d_existing.expiry = d_txn.created_at
    /\ d_txn.computed_expiry # d_existing.expiry + d_txn.duration_days

\* C6: stacking not allowed, an existing record, not a duplicate:
\* manual_review with reason stacking_disabled_existing_access, expiring at
\* existing.expiry.
C6_ManualReview ==
    (Decided /\ NonDuplicate /\ ~d_txn.stacking_allowed)
        => (d_action.type = "manual_review"
            /\ d_action.reason = "stacking_disabled_existing_access"
            /\ d_action.expires_at = d_existing.expiry)

C6_Witness ==
    /\ Decided
    /\ NonDuplicate
    /\ ~d_txn.stacking_allowed
    /\ d_txn.computed_expiry # d_existing.expiry

(***************************************************************************)
(* Properties of run_sync (Spec, SpecAged).                                *)
(***************************************************************************)
\* the step of the loop that handles normalized[index]
HandlesTxn == pc = "running" /\ index <= Len(normalized) /\ index' = index + 1

\* the step that ends a pass after every ledger was saved
PassCompletes ==
    /\ pc = "running"
    /\ index > Len(normalized)
    /\ pc' = "idle"
    /\ last'.outcome # "save_failed"

\* a grant of the transaction is in the history of a persisted access record
GrantPersisted(files, script_id, transaction_id) ==
    LET users == load_master(files, script_id).users
    IN \E k \in DOMAIN users : \E j \in 1..Len(users[k].history) :
          users[k].history[j].transaction_id = transaction_id

\* C1: a transaction that was granted, and the grant persisted, by an
\* earlier pass is handled on re-delivery without a grant call and without
\* a change to the access records of its ledger.
C1_RedeliveryIdempotent ==
    [][HandlesTxn =>
        LET txn == normalized[index]
        IN GrantPersisted(disk, txn.script_id, txn.transaction_id)
              => /\ last'.grant_calls = 0
                 /\ tv_grants' = tv_grants
                 /\ master_cache'[txn.script_id].users
                        = master_cache[txn.script_id].users]_vars

\* C7: a transaction decided manual_review is handled with no verification
\* and no grant call, the access records unchanged, one manual-review entry
\* appended and the transaction marked processed.
C7_ManualReviewFrame ==
    [][(HandlesTxn /\ last'.action.type = "manual_review") =>
        LET txn == normalized[index]
            before == master_cache[txn.script_id]
            after == master_cache'[txn.script_id]
        IN /\ ~last'.validated
           /\ last'.grant_calls = 0
           /\ tv_grants' = tv_grants
           /\ after.users = before.users
           /\ after.manual_review =
                  Append(before.manual_review,
                         [transaction_id |-> txn.transaction_id,
                          reason         |-> "stacking_disabled_existing_access",
                          recorded_at    |-> pass_no])
           /\ InList(txn.transaction_id, after.processed_transactions)]_vars

C7_Witness ==
    /\ pc = "running"
    /\ last.outcome = "manual_review"
    /\ \E i \in 1..Len(master_cache["A"].manual_review) :
          master_cache["A"].manual_review[i].transaction_id = last.transaction_id

\* C8: a transaction of a recipient who already has an access record in the
\* ledger is never decided grant_new.
C8_LaterSeesEarlierGrant ==
    [][HandlesTxn =>
        LET txn == normalized[index]
            users == master_cache[txn.script_id].users
        IN (\E k \in DOMAIN users : users[k].wp_user_id = txn.wp_user_id)
              => last'.action.type # "grant_new"]_vars

Watermark(files, script_id) == load_master(files, script_id).last_processed_at

C10_NoLedgerMissed ==
    [][(pc = "idle" /\ pc' = "running") =>
        \A i \in 1..Len(source) :
           LET raw == source[i]
               own == Watermark(disk, Products[raw.product_id].script_id)
           IN (Lower(raw.status) \in allowed_statuses
                  /\ (own = None \/ raw.created_at > own))
                 => InList(raw, raw_transactions')]_vars

C12_FailedGrantRefetched ==
    [][(pc = "idle" /\ pc' = "running") =>
        \A i \in 1..Len(source) :
           LET raw == source[i]
               ledger == load_master(disk, Products[raw.product_id].script_id)
           IN ((\E j \in 1..Len(ledger.retry_queue) :
                     ledger.retry_queue[j].transaction_id = raw.transaction_id)
                  /\ ~InList(raw.transaction_id, ledger.processed_transactions))
                 => InList(raw, raw_transactions')]_vars

\* C13 (amended): a verification that fails with an ApiError leaves the
\* ledger as it was, makes no grant call, is counted in validation_failed and
\* not in failed, and the loop goes on to the next transaction.
C13_ValidationErrorFrame ==
    [][(pc = "running" /\ index <= Len(normalized)
           /\ last'.outcome = "validation_error") =>
        LET txn == normalized[index]
        IN /\ master_cache' = master_cache
           /\ ~InList(txn.transaction_id,
                      master_cache'[txn.script_id].processed_transactions)
           /\ summary'.validation_failed = summary.validation_failed + 1
           /\ summary'.failed = summary.failed
           /\ last'.grant_calls = 0
           /\ tv_grants' = tv_grants
           /\ pc' = "running"
           /\ index' = index + 1]_vars

\* a transaction is granted after another of the same pass failed verification
C13_Witness ==
    /\ pc = "running"
    /\ last.outcome = "grant_new"
    /\ summary.validation_failed = 1
    /\ summary.processed = 1

\* C13 as stated: a verification that fails with an ApiError is counted in
\* the failed counter of the summary.
C13_CountedAsFailed ==
    [][(HandlesTxn /\ last'.outcome = "validation_error") =>
        summary'.failed = summary.failed + 1]_vars

\* C14: a transaction whose identity was reported invalid got no grant call,
\* is marked processed and has an invalid_username entry in the manual-review
\* queue; no transaction id was sent more than one correction notification,
\* and no ledger holds two invalid_username entries of one transaction id.
C14_InvalidIdentityOnce ==
    /\ (pc = "running" /\ last.outcome = "invalid_username") =>
          LET txn == normalized[index - 1]
              master == master_cache[txn.script_id]
          IN /\ last.grant_calls = 0
             /\ InList(txn.transaction_id, master.processed_transactions)
             /\ \E i \in 1..Len(master.manual_review) :
                   /\ master.manual_review[i].transaction_id = txn.transaction_id
                   /\ master.manual_review[i].reason = "invalid_username"
    /\ \A t \in DOMAIN emails : emails[t] <= 1
    /\ \A s \in ScriptIds :
          Readable(disk, s) =>
             LET queue == load_master(disk, s).manual_review
             IN \A i, j \in 1..Len(queue) :
                   (queue[i].transaction_id = queue[j].transaction_id
                       /\ queue[i].reason = "invalid_username"
                       /\ queue[j].reason = "invalid_username") => i = j

\* C15: after a grant under a verified name that differs from the
\* purchase-time username, the access record of the transaction is under the
\* verified name and nothing is under the purchase-time username.
C15_Rekeyed ==
    [][(HandlesTxn /\ last'.outcome \in {"grant_new", "stack_existing"}
           /\ last'.username # normalized[index].username) =>
        LET txn == normalized[index]
            users == master_cache'[txn.script_id].users
        IN /\ last'.username \in DOMAIN users
           /\ users[last'.username].last_transaction_id = txn.transaction_id
           /\ users[last'.username].username = last'.username
           /\ txn.username \notin DOMAIN users]_vars

\* the record was under the purchase-time username before this grant moved it
C15_Witness ==
    /\ pc = "running"
    /\ last.outcome = "stack_existing"
    /\ last.username = Canonical(normalized[index - 1].username)
    /\ last.username # normalized[index - 1].username
    /\ last.username \in DOMAIN master_cache[normalized[index - 1].script_id].users
    /\ normalized[index - 1].username
          \in DOMAIN load_master(disk, normalized[index - 1].script_id).users

\* C16: after every register_processed call the processed list has no
\* duplicate, at most ProcessedCap entries, and is the last ProcessedCap (or
\* fewer) ids registered while absent, in registration order; a call with an
\* id that is present changes nothing, and a call with an absent id on a
\* full list drops the oldest entry.
C16_ProcessedListBounded ==
    [][(r_calls' # r_calls) =>
        LET id == r_calls'[Len(r_calls')]
            list == r_master.processed_transactions
            list2 == r_master'.processed_transactions
            from == IF Len(r_log') > ProcessedCap
                    THEN Len(r_log') - ProcessedCap + 1
                    ELSE 1
        IN /\ Cardinality({list2[i] : i \in 1..Len(list2)}) = Len(list2)
           /\ Len(list2) <= ProcessedCap
           /\ list2 = SubSeq(r_log', from, Len(r_log'))
           /\ (\E i \in 1..Len(list) : list[i] = id) => r_master' = r_master
           /\ (\A i \in 1..Len(list) : list[i] # id) =>
                 list2 = IF Len(list) < ProcessedCap
                         THEN Append(list, id)
                         ELSE Append(Tail(list), id)]_vars

\* a full list took a new id, evicting its oldest, and a call changed nothing
C16_Witness ==
    /\ Len(r_log) > ProcessedCap
    /\ Len(r_master.processed_transactions) = ProcessedCap
    /\ r_master.processed_transactions[1] # r_log[1]
    /\ Len(r_calls) > Len(r_log) - ProcessedCap

\* the ledger the transaction with this id of the running pass belongs to
ScriptOf(transaction_id) ==
    LET i == CHOOSE k \in 1..Len(normalized) :
                 normalized[k].transaction_id = transaction_id
    IN normalized[i].script_id

C18_DryRunIsFrame ==
    [][(pc = "running" /\ dry_run) =>
        /\ tv_grants' = tv_grants
        /\ \A s \in ScriptIds :
              Readable(disk', s) =>
                 /\ load_master(disk', s).users = load_master(disk, s).users
                 /\ load_master(disk', s).processed_transactions
                       = load_master(disk, s).processed_transactions]_vars

C20_PassNeverAborts ==
    [][(pc = "running") =>
        IF index <= Len(normalized)
        THEN pc' = "running" /\ index' = index + 1
        ELSE PassCompletes =>
                \A s \in DOMAIN master_cache :
                   load_master(disk', s) =
                       advance_watermark(master_cache[s], latest_seen[s])]_vars

\* C27: handling a transaction of one ledger leaves every other ledger of
\* the pass as it was (records, processed list, queues, last_synced_at,
\* last_processed_at) and the newest created_at seen for it as it was, and the
\* end of a pass leaves the persisted content of every ledger that had no
\* transaction in the pass as it was.
C27_OtherLedgersUntouched ==
    [][/\ HandlesTxn =>
             \A s \in ScriptIds \ {normalized[index].script_id} :
                /\ master_cache'[s] = master_cache[s]
                /\ latest_seen'[s] = latest_seen[s]
       /\ (pc = "running" /\ index > Len(normalized)) =>
             \A s \in ScriptIds :
                ((\A i \in 1..Len(normalized) : normalized[i].script_id # s)
                    /\ Readable(disk', s))
                   => load_master(disk', s) = load_master(disk, s)]_vars

\* a pass that granted a transaction of one ledger has ended and saved, and
\* the other ledger holds the record of an earlier pass
C27_Witness ==
    /\ pc = "idle"
    /\ last.outcome = "none"
    /\ pass_no = 2
    /\ \A s \in ScriptIds : Readable(disk, s)
    /\ \E s, t \in ScriptIds :
          /\ s # t
          /\ load_master(disk, s).last_synced_at = 2
          /\ load_master(disk, t).last_synced_at = 1
          /\ load_master(disk, t).last_processed_at # None
          /\ DOMAIN load_master(disk, t).users # {}

\* C26: in every ledger, in memory and persisted, no two access records
\* belong to the same recipient (wp_user_id).
C26_OneRecordPerRecipient ==
    \A s \in ScriptIds :
       /\ pc = "running" =>
             \A k1, k2 \in DOMAIN master_cache[s].users :
                master_cache[s].users[k1].wp_user_id
                    = master_cache[s].users[k2].wp_user_id => k1 = k2
       /\ Readable(disk, s) =>
             \A k1, k2 \in DOMAIN load_master(disk, s).users :
                load_master(disk, s).users[k1].wp_user_id
                    = load_master(disk, s).users[k2].wp_user_id => k1 = k2

IsPrefix(a, b) == Len(a) <= Len(b) /\ SubSeq(b, 1, Len(a)) = a

\* both queues of the later ledger begin with the queues of the earlier one
QueuesExtend(before, after) ==
    /\ IsPrefix(before.retry_queue, after.retry_queue)
    /\ IsPrefix(before.manual_review, after.manual_review)

\* C28: over any passes the retry queue and the manual-review queue of a
\* ledger only grow at their end, persisted, when loaded and in memory; and a
\* grant call is made only in the step that handles a fetched transaction,
\* for that transaction, once: none is made for an entry of the retry queue.
C28_QueuesAppendOnly ==
    [][/\ \A s \in ScriptIds :
             (Readable(disk, s) /\ Readable(disk', s))
                => QueuesExtend(load_master(disk, s), load_master(disk', s))
       /\ (pc = "idle" /\ pc' = "running") =>
             \A s \in ScriptIds :
                QueuesExtend(load_master(disk, s), master_cache'[s])
       /\ HandlesTxn =>
             \A s \in ScriptIds : QueuesExtend(master_cache[s], master_cache'[s])
       /\ \A t \in DOMAIN tv_grants :
             tv_grants'[t] # tv_grants[t] =>
                /\ HandlesTxn
                /\ t = normalized[index].transaction_id
                /\ tv_grants'[t] = tv_grants[t] + 1]_vars

\* the grant of one transaction failed in two passes: the persisted retry
\* queue holds both entries, and no grant call for it ever succeeded
C28_Witness ==
    /\ pc = "idle"
    /\ \E s \in ScriptIds :
          /\ Readable(disk, s)
          /\ Len(load_master(disk, s).retry_queue) = 2
          /\ load_master(disk, s).retry_queue[1].transaction_id
                = load_master(disk, s).retry_queue[2].transaction_id
          /\ DOMAIN load_master(disk, s).users = {}

\* C29: when the correction notification of a transaction that is not yet
\* in the manual-review queue cannot be sent, the transaction still gets its
\* invalid_username entry at the end of the queue and its processed mark, no
\* notification and no grant call is counted, and the loop goes on.
C29_SendFailureContained ==
    [][(pc = "running" /\ index <= Len(normalized) /\ EmailConfigured
           /\ last'.outcome = "invalid_username" /\ ~last'.emailed
           /\ \A i \in 1..Len(master_cache[normalized[index].script_id].manual_review) :
                 master_cache[normalized[index].script_id].manual_review[i].transaction_id
                    # normalized[index].transaction_id) =>
        LET txn == normalized[index]
            before == master_cache[txn.script_id]
            after == master_cache'[txn.script_id]
        IN /\ after.manual_review =
                  Append(before.manual_review,
                         [transaction_id |-> txn.transaction_id,
                          reason         |-> "invalid_username",
                          recorded_at    |-> _utcnow])
           /\ InList(txn.transaction_id, after.processed_transactions)
           /\ summary'.manual_review = summary.manual_review + 1
           /\ emails' = emails
           /\ tv_grants' = tv_grants
           /\ pc' = "running"
           /\ index' = index + 1]_vars

\* the notification of the transaction handled last could not be sent in
\* this pass, and the pass went on to the end of its transactions
C29_Witness ==
    /\ pc = "running"
    /\ last.outcome = "invalid_username"
    /\ ~last.emailed
    /\ emails[last.transaction_id] = 0
    /\ \E i \in 1..Len(master_cache[normalized[index - 1].script_id].manual_review) :
          LET entry == master_cache[normalized[index - 1].script_id].manual_review[i]
          IN /\ entry.transaction_id = last.transaction_id
             /\ entry.recorded_at = pass_no

(***************************************************************************)
(* Persistence of a ledger (LedgerSpec).                                   *)
(***************************************************************************)
\* C22: when the process stops at any point of a save, the ledger's file
\* holds the whole previous document or the whole new one, never an empty
\* or partial one.
C22_SaveAtomic ==
    r_pos = "crashed" =>
        \/ r_file = r_prev
        \/ r_file = save_master(r_prev, r_master)

(***************************************************************************)
(* Triggers (TriggerSpec).                                                 *)
(***************************************************************************)
\* C21: whichever way passes are triggered, by the interval job or by
\* POST /sync, at most one pass is in flight at any time (every pass works
\* on all ledgers, so two passes in flight share every ledger).
C21_OnePassInFlight ==
    Cardinality({t \in Triggers : t_pass[t] # "idle"}) <= 1

(***************************************************************************)
(* Persistence within a pass (Spec).                                       *)
(***************************************************************************)
\* C23: no step of a pass before the one that follows the last transaction
\* writes a ledger file, so a pass that is interrupted between transactions
\* leaves every persisted ledger as it was when the pass started.
C23_NoWriteBeforeLastTransaction ==
    [][~(pc = "running" /\ index > Len(normalized)) => disk' = disk]_vars

\* the first pass was interrupted after it had granted a transaction
C23_Witness ==
    /\ pc = "idle"
    /\ last.outcome = "render_failed"
    /\ disk = <<>>
    /\ \E t \in DOMAIN tv_grants : tv_grants[t] = 1

\* C24: a ledger file that cannot be read keeps no pass from working on the
\* other ledgers, and a ledger file that cannot be written keeps no other
\* ledger from being saved.
C24_FileFailureIsLocal ==
    [][/\ (pc = "idle" /\ pass_no' # pass_no
              /\ \E s \in ScriptIds : Readable(disk, s))
            => pc' = "running"
       /\ (pc = "running" /\ index > Len(normalized))
            => Cardinality({s \in DOMAIN master_cache :
                              \/ ~Readable(disk', s)
                              \/ load_master(disk', s) #
                                    advance_watermark(master_cache[s],
                                                      latest_seen[s])}) <= 1]_vars

(***************************************************************************)
(* Delivery order (OrderSpec).                                             *)
(***************************************************************************)
\* C25: once all transactions of a recipient have been handled, the expiry
\* of the recipient's access record is the same whether they were delivered
\* in one order or in the reverse order.
C25_OrderIndependent ==
    (o_n > 0 /\ o_n = Len(o_txns)) =>
        UsersGet(o_fwd.users, o_txns[1].username).expiry
            = UsersGet(o_rev.users, o_txns[1].username).expiry

(***************************************************************************)
(* Properties of the normalizer (NormalizeSpec).                           *)
(***************************************************************************)
Max(a, b) == IF a >= b THEN a ELSE b

\* C30: the computed_expiry of every normalized transaction is the later of
\* its source expiry and created_at + duration_days, and so is never before
\* its created_at.
C30_ExpiryNotBeforeCreation ==
    \A i \in 1..Len(normalized) :
       LET txn == normalized[i]
           raw == CHOOSE r \in {raw_transactions[k] : k \in 1..Len(raw_transactions)} :
                     r.product_id \in ProductIds /\ NormalizedTransaction(r) = txn
       IN /\ txn.computed_expiry >= txn.created_at
          /\ txn.computed_expiry
                = Max(raw.expires_at, txn.created_at + txn.duration_days)

\* the ways the output can have come from the input: output i from record
\* f[i], later outputs from later records, each record resolvable
Origins ==
    {f \in [1..Len(normalized) -> 1..Len(raw_transactions)] :
        /\ \A i, j \in 1..Len(normalized) : i < j => f[i] < f[j]
        /\ \A i \in 1..Len(normalized) :
              /\ Resolvable(raw_transactions[f[i]])
              /\ normalized[i] = NormalizedTransaction(raw_transactions[f[i]])}

Normalized == raw_transactions # <<>>

\* C31 (amended): under a non-empty allow-list every output record comes
\* from an input record whose status value, the status field or else the
\* txn_status field with surrounding blanks removed, is on the allow-list
\* when both are put in lower case; under an empty allow-list every input
\* record that resolves is output.
C31_StatusAllowList ==
    Normalized =>
       IF n_filter # {}
       THEN \E f \in Origins : \A i \in 1..Len(normalized) :
               Lower(status_value(raw_transactions[f[i]])) \in LowerAll(n_filter)
       ELSE Len(normalized) =
               Cardinality({k \in 1..Len(raw_transactions) :
                               Resolvable(raw_transactions[k])})

\* under an allow-list a record with an off-list status was dropped and one
\* whose status is on it in capitals was kept
C31_Witness ==
    /\ Normalized
    /\ n_filter # {}
    /\ Len(raw_transactions) = 2
    /\ raw_transactions[1].status = "pending"
    /\ Resolvable(raw_transactions[1])
    /\ raw_transactions[2].status = "Complete"
    /\ Len(normalized) = 1

\* C31 as stated: under a non-empty allow-list every output record comes
\* from an input record whose status field, put in lower case, is on the
\* allow-list.
C31_StatusFieldOnList ==
    (Normalized /\ n_filter # {}) =>
       \E f \in Origins : \A i \in 1..Len(normalized) :
          Lower(raw_transactions[f[i]].status) \in LowerAll(n_filter)

\* C32: the output is the input with records left out: every output
\* transaction is the normalized form of an input record of its own, outputs
\* are in the order of their records, and none has a product outside the
\* catalog.
C32_OrderedSubsequence ==
    Normalized =>
       /\ Origins # {}
       /\ \A i \in 1..Len(normalized) : normalized[i].product_id \in ProductIds

\* two different records were both kept
C32_Witness ==
    /\ Normalized
    /\ Len(normalized) = 2
    /\ normalized[1] # normalized[2]

C34_GrantCommitted ==
    [][(HandlesTxn /\ last'.outcome \in {"grant_new", "stack_existing"}) =>
        LET txn == normalized[index]
            before == master_cache[txn.script_id]
            after == master_cache'[txn.script_id]
            name == last'.username
            held == IF UsersGet(before.users, name) # NoRecord
                    THEN UsersGet(before.users, name)
                    ELSE UsersGet(before.users, txn.username)
            previous == IF held = NoRecord THEN <<>> ELSE held.history
        IN /\ name \in DOMAIN after.users
           /\ after.users[name].expiry = last'.action.expires_at
           /\ after.users[name].last_transaction_id = txn.transaction_id
           /\ after.users[name].history =
                  Append(previous, [transaction_id |-> txn.transaction_id,
                                    action         |-> last'.action.type,
                                    expires_at     |-> last'.action.expires_at,
                                    processed_at   |-> _utcnow])
           /\ InList(txn.transaction_id, after.processed_transactions)
           /\ after.last_synced_at # None
           /\ after.last_synced_at = _utcnow]_vars

C34_Witness ==
    /\ pc = "running"
    /\ last.outcome = "stack_existing"
    /\ \E s \in ScriptIds :
          /\ last.username \in DOMAIN master_cache[s].users
          /\ master_cache[s].users[last.username].last_transaction_id
                = last.transaction_id
          /\ Len(master_cache[s].users[last.username].history) = 2

\* C35: a grant call is made only after the identity of the purchaser was
\* verified in the same iteration, a transaction receives at most one grant
\* call in a pass (one call at most in its iteration, and no earlier
\* iteration of the pass was for the same transaction), and the payload of
\* the call names the verified username when verification returned one,
\* the purchase's username otherwise.
C35_VerifiedThenGrantedOnce ==
    [][/\ (HandlesTxn /\ last'.action.type \in {"grant_new", "stack_existing"}) =>
            LET txn == normalized[index]
            IN /\ tv_grants'[txn.transaction_id] - tv_grants[txn.transaction_id]
                     = last'.grant_calls
               /\ last'.grant_calls <= 1
               /\ \A j \in 1..(index - 1) :
                     normalized[j].transaction_id # txn.transaction_id
               /\ last'.grant_calls = 1 =>
                     /\ last'.validated
                     /\ last'.username = IF last'.verified # ""
                                         THEN last'.verified
                                         ELSE txn.username
       /\ ~HandlesTxn => tv_grants' = tv_grants]_vars

C35_Witness ==
    /\ pc = "running"
    /\ last.action.type = "stack_existing"
    /\ last.grant_calls = 1
    /\ last.validated
    /\ last.verified # ""
    /\ last.username = last.verified

(***************************************************************************)
(* The order of the rules of the decision engine (EngineSpec).             *)
(***************************************************************************)
\* C36: a transaction whose id is the existing record's last_transaction_id
\* is decided skip, with reason duplicate_transaction and the record's
\* expiry, whether its product allows stacking or not and whether the
\* record's access is still live or has lapsed: the duplicate rule comes
\* before the stacking rule and before the manual-review rule.
C36_DuplicateRuleFirst ==
    (/\ Decided
     /\ d_existing # NoRecord
     /\ d_txn.transaction_id = d_existing.last_transaction_id)
        => /\ d_action.type = "skip"
           /\ d_action.reason = "duplicate_transaction"
           /\ d_action.expires_at = d_existing.expiry

C36_Witness ==
    /\ Decided
    /\ d_existing # NoRecord
    /\ d_txn.transaction_id = d_existing.last_transaction_id
    /\ d_txn.stacking_allowed
    /\ d_existing.expiry > d_txn.created_at
    /\ d_first = NoAction
    /\ d_action.type = "skip"

(***************************************************************************)
(* The transport retry of the grant call (RetrySpec).                      *)
(***************************************************************************)
\* C37: a grant call makes at most max_retries + 1 attempts; it ends by
\* returning, which it does exactly when its last attempt was answered
\* with success, no attempt following, or by raising ApiError, which it
\* does after max_retries + 1 attempts that all failed; it ends in no
\* other way.
C37_RetryBounded ==
    /\ Len(posts) <= _max_retries + 1
    /\ post_pc \notin {"idle", "while", "sleep"} =>
          /\ post_pc \in {"returned", "ApiError"}
          /\ post_pc = "returned" =>
                /\ posts[Len(posts)] = "ok"
                /\ \A k \in 1..(Len(posts) - 1) :
                      posts[k] \in {"HTTPStatusError", "HTTPError"}
          /\ post_pc = "ApiError" =>
                /\ Len(posts) = _max_retries + 1
                /\ \A k \in 1..Len(posts) :
                      posts[k] \in {"HTTPStatusError", "HTTPError"}

(***************************************************************************)
(* The expiry of a recipient over a sequence of transactions (OrderSpec).  *)
(***************************************************************************)
\* C38: each transaction handled leaves every access record of the ledger,
\* under the name it had or under the verified name it was moved to, with
\* an expiry not earlier than the one it had before.
C38_ExpiryNeverDecreases ==
    [][o_n' = o_n + 1 =>
        \A k \in DOMAIN o_ver.users :
           LET name == IF k \in DOMAIN o_ver'.users THEN k ELSE Canonical(k)
           IN /\ name \in DOMAIN o_ver'.users
              /\ o_ver'.users[name].expiry >= o_ver.users[k].expiry]_vars

(***************************************************************************)
(* A dry-run pass before a real one (Spec).                                *)
(***************************************************************************)
\* C39: a dry-run pass that completes leaves the persisted ledgers such
\* that the pass that follows starts as it would have started without the
\* dry run: it computes the same fetch watermark, is answered the same
\* transactions by the purchase source, and finds the same processed ids
\* and access records, hence decides and issues the same grant calls.
C39_DryRunThenReal ==
    [][(PassCompletes /\ dry_run) =>
        LET before == [s \in ScriptIds |-> load_master(disk, s)]
            after  == [s \in ScriptIds |-> load_master(disk', s)]
        IN /\ compute_since(after) = compute_since(before)
           /\ fetch_transactions(compute_since(after))
                 = fetch_transactions(compute_since(before))
           /\ \A s \in ScriptIds :
                 /\ after[s].processed_transactions
                       = before[s].processed_transactions
                 /\ after[s].users = before[s].users]_vars

(***************************************************************************)
(* The dry-run choice of an HTTP request (TriggerSpec).                    *)
(***************************************************************************)
\* C40: the pass a POST /sync request starts runs dry exactly when that
\* request was made with dry_run=true; in particular a request made with
\* dry_run=false starts a real pass, whatever requests were made before.
C40_DryRunPerRequest ==
    [][\A request \in HttpRequests :
          (t_pass[request] = "idle" /\ t_pass'[request] = "loading")
             => t_dry'[request] = t_asked'[request]]_vars

====
